---- MODULE Spec2Model ----
(***************************************************************************)
(* Model of infra/lambda/log_processor.py: the CloudWatch Logs handler of  *)
(* fhir-bridge.  An invocation decodes a transport payload, dispatches on  *)
(* the log group to one of three extractors, makes the extractor's sink    *)
(* calls (CloudWatch metrics, SNS alert, S3 audit summary) and finally     *)
(* persists the raw batch to S3.  Invocations interleave at their calls to *)
(* the external services; the services' state (metrics, alerts, S3) is     *)
(* shared.  Strings are TLA+ strings, searched character by character.     *)
(***************************************************************************)
EXTENDS Integers, Sequences, FiniteSets, TLC

\* ------------------------------------------------------------------ bounds
\* Longest logEvents list of a batch.
MaxRecords == 2
\* Last UTC day the clock reaches (it starts on day 1).
MaxDay == 2
\* Number of invocations that run concurrently.
NumInv == 2

Inv == 1..NumInv

\* ------------------------------------------------------- Python built-ins
\* Python's None, and a present value v, for the results of dict.get.
None == <<>>
Some(v) == <<v>>

\* The slice s[i-1:j] of a Python string (positions are 1-based here, and a
\* slice reaching outside the string is cut to it).
Slice(s, i, j) ==
    LET a == IF i < 1 THEN 1 ELSE i
        b == IF j > Len(s) THEN Len(s) ELSE j
    IN  IF a > b THEN "" ELSE SubSeq(s, a, b)

\* `sub in s` on Python strings.
Contains(s, sub) ==
    \E i \in 1..(Len(s) - Len(sub) + 1) : Slice(s, i, i + Len(sub) - 1) = sub

\* Position of the first occurrence of sub in s at or after position from
\* (0 when there is none): str.find, 1-based.
Find(s, sub, from) ==
    LET hits == {i \in from..(Len(s) - Len(sub) + 1) :
                    Slice(s, i, i + Len(sub) - 1) = sub}
    IN  IF hits = {} THEN 0 ELSE CHOOSE i \in hits : \A j \in hits : i <= j

UpperCase == "ABCDEFGHIJKLMNOPQRSTUVWXYZ"
LowerCase == "abcdefghijklmnopqrstuvwxyz"

LowerChar(c) ==
    LET k == Find(UpperCase, c, 1)
    IN  IF k = 0 THEN c ELSE Slice(LowerCase, k, k)

\* str.lower()
Lower(s) ==
    LET lowered[k \in 0..Len(s)] ==
            IF k = 0 THEN "" ELSE lowered[k - 1] \o LowerChar(Slice(s, k, k))
    IN  lowered[Len(s)]

Digits == "0123456789"
IsDigit(c) == Find(Digits, c, 1) # 0
DigitVal(c) == Find(Digits, c, 1) - 1

\* int(s) for a string of decimal digits.
ParseInt(s) ==
    LET value[k \in 0..Len(s)] ==
            IF k = 0 THEN 0 ELSE value[k - 1] * 10 + DigitVal(Slice(s, k, k))
    IN  value[Len(s)]

AllDigits(s, i, j) == \A k \in i..j : IsDigit(Slice(s, k, k))

\* sum(m['duration'] for m in ms)
SumDurations(ms) ==
    LET total[k \in 0..Len(ms)] ==
            IF k = 0 THEN 0 ELSE total[k - 1] + ms[k].duration
    IN  total[Len(ms)]

\* The outcome of a step that may raise.
Ok(v) == [ok |-> TRUE, val |-> v]
Err(e) == [ok |-> FALSE, err |-> e]

\* --------------------------------------------------------------- messages
\* The messages of the log records the model feeds the handler.
AppMessages ==
    {"INFO start", "ERROR boom", "error in lower case", "Request completed",
     "Request completed in 100ms", "ERROR Request completed 7 items in 42ms"}

SecMessages ==
    {"login ok", "Authentication Failed: bad password", "request BLOCKED",
     "unauthorized: authentication failed", "Forbidden"}

AuditMessages ==
    {"not json", "[1]", "{}",
     "{\"userId\":\"u1\",\"action\":\"read\",\"outcome\":\"ok\"}",
     "{\"action\":\"read\",\"resourceType\":\"Patient\",\"resourceId\":\"p1\"}"}

ConcurrentMessages == {"{\"userId\":\"u1\"}", "{\"userId\":\"u2\"}"}

Messages == AppMessages \cup SecMessages \cup AuditMessages \cup ConcurrentMessages

\* ------------------------------------------------------------ json.loads
\* json.loads on the texts the model feeds it: a flat object whose members
\* are "key":"value" pairs without whitespace or escapes (a dict, a later
\* duplicate key replacing an earlier one), "[" digits "]" (a list), digits
\* (an int); every other text raises JSONDecodeError.
DictPut(d, k, v) == [x \in (DOMAIN d) \cup {k} |-> IF x = k THEN v ELSE d[x]]
EmptyDict == [x \in {} |-> ""]

RECURSIVE JsonMembers(_, _, _)
JsonMembers(s, p, acc) ==
    LET kq == Find(s, "\"", p + 1)
        vq == Find(s, "\"", kq + 3)
        nx == Slice(s, vq + 1, vq + 1)
    IN  IF Slice(s, p, p) # "\"" \/ kq = 0 THEN Err("JSONDecodeError")
        ELSE IF Slice(s, kq + 1, kq + 2) # ":\"" \/ vq = 0 THEN Err("JSONDecodeError")
        ELSE LET acc2 == DictPut(acc, Slice(s, p + 1, kq - 1), Slice(s, kq + 3, vq - 1))
             IN  IF nx = "}" /\ vq + 1 = Len(s) THEN Ok([type |-> "dict", items |-> acc2])
                 ELSE IF nx = "," THEN JsonMembers(s, vq + 2, acc2)
                 ELSE Err("JSONDecodeError")

JsonLoads(s) ==
    IF s = "{}" THEN Ok([type |-> "dict", items |-> EmptyDict])
    ELSE IF Len(s) > 2 /\ Slice(s, 1, 1) = "{" THEN JsonMembers(s, 2, EmptyDict)
    ELSE IF Len(s) > 2 /\ Slice(s, 1, 1) = "[" /\ Slice(s, Len(s), Len(s)) = "]"
            /\ AllDigits(s, 2, Len(s) - 1)
         THEN Ok([type |-> "list", items |-> EmptyDict])
    ELSE IF Len(s) > 0 /\ AllDigits(s, 1, Len(s))
         THEN Ok([type |-> "int", items |-> EmptyDict])
    ELSE Err("JSONDecodeError")

\* audit_data.get(key): AttributeError unless audit_data is a dict.
DictGet(d, k) == IF k \in DOMAIN d THEN Some(d[k]) ELSE None

\* ------------------------------------------------------------- extractors
\* extract_duration with the pattern r'(\d+)': the leftmost run of digits,
\* whether or not "ms" follows it.
extract_duration_mutant(message) ==
    LET n == Len(message)
        starts == {i \in 1..n : IsDigit(Slice(message, i, i))}
    IN  IF starts = {} THEN 0
        ELSE LET i == CHOOSE a \in starts : \A b \in starts : a <= b
                 j == CHOOSE a \in i..n :
                        AllDigits(message, i, a) /\ ~IsDigit(Slice(message, a + 1, a + 1))
             IN  ParseInt(Slice(message, i, j))

\* extract_duration: re.search(r'(\d+)ms', message), the leftmost run of
\* digits that "ms" follows, as an int; 0 when nothing matches.
extract_duration(message) ==
    LET n == Len(message)
        Ends(i) == {j \in i..n : AllDigits(message, i, j)
                                   /\ Slice(message, j + 1, j + 2) = "ms"}
        starts == {i \in 1..n : Ends(i) # {}}
    IN  IF starts = {} THEN 0
        ELSE LET i == CHOOSE a \in starts : \A b \in starts : a <= b
                 j == CHOOSE a \in Ends(i) : TRUE
             IN  ParseInt(Slice(message, i, j))

\* message.lower(), extract_duration(message) and json.loads(message) of
\* every message, computed once.
message_lower == [m \in Messages |-> Lower(m)]
message_duration == [m \in Messages |-> extract_duration(m)]
message_json == [m \in Messages |-> JsonLoads(m)]

\* The loop of process_application_logs: error_count and
\* performance_metrics after the first k events.
RECURSIVE application_scan(_, _)
application_scan(log_events, k) ==
    IF k = 0 THEN [error_count |-> 0, performance_metrics |-> <<>>]
    ELSE LET acc == application_scan(log_events, k - 1)
             ev == log_events[k]
             message == ev.message
         IN  [error_count |->
                 IF Contains(message, "ERROR") THEN acc.error_count + 1
                 ELSE acc.error_count,
              performance_metrics |->
                 IF Contains(message, "Request completed")
                 THEN Append(acc.performance_metrics,
                             [timestamp |-> ev.timestamp,
                              duration |-> message_duration[message],
                              message |-> message])
                 ELSE acc.performance_metrics]

\* avg_duration = sum(...) / len(...): the quotient, kept as a fraction.
avg_duration(performance_metrics) ==
    [num |-> SumDurations(performance_metrics), den |-> Len(performance_metrics)]

SuspiciousKeywords == {"unauthorized", "forbidden", "blocked"}

\* The loop of process_security_logs with `elif` for the second check: a
\* record counted as a failed authentication is not looked at again.
RECURSIVE security_scan_mutant(_, _)
security_scan_mutant(log_events, k) ==
    IF k = 0 THEN [failed_auth_count |-> 0, suspicious_activities |-> <<>>]
    ELSE LET acc == security_scan_mutant(log_events, k - 1)
             ev == log_events[k]
             message == ev.message
             failed == Contains(message_lower[message], "authentication failed")
         IN  [failed_auth_count |->
                 IF failed THEN acc.failed_auth_count + 1 ELSE acc.failed_auth_count,
              suspicious_activities |->
                 IF ~failed /\ \E keyword \in SuspiciousKeywords :
                                  Contains(message_lower[message], keyword)
                 THEN Append(acc.suspicious_activities,
                             [timestamp |-> ev.timestamp, message |-> message])
                 ELSE acc.suspicious_activities]

\* The loop of process_security_logs.
RECURSIVE security_scan(_, _)
security_scan(log_events, k) ==
    IF k = 0 THEN [failed_auth_count |-> 0, suspicious_activities |-> <<>>]
    ELSE LET acc == security_scan(log_events, k - 1)
             ev == log_events[k]
             message == ev.message
         IN  [failed_auth_count |->
                 IF Contains(message_lower[message], "authentication failed")
                 THEN acc.failed_auth_count + 1
                 ELSE acc.failed_auth_count,
              suspicious_activities |->
                 IF \E keyword \in SuspiciousKeywords : Contains(message_lower[message], keyword)
                 THEN Append(acc.suspicious_activities,
                             [timestamp |-> ev.timestamp, message |-> message])
                 ELSE acc.suspicious_activities]

\* The body of the try of process_audit_logs for one event.
audit_event(ev) ==
    LET audit_data == message_json[ev.message]
    IN  IF ~audit_data.ok THEN Err(audit_data.err)
        ELSE IF audit_data.val.type # "dict" THEN Err("AttributeError")
        ELSE Ok([timestamp |-> ev.timestamp,
                 userId |-> DictGet(audit_data.val.items, "userId"),
                 action |-> DictGet(audit_data.val.items, "action"),
                 resourceType |-> DictGet(audit_data.val.items, "resourceType"),
                 resourceId |-> DictGet(audit_data.val.items, "resourceId"),
                 outcome |-> DictGet(audit_data.val.items, "outcome")])

\* The loop of process_audit_logs with an except clause that keeps the event
\* it could not parse, with its timestamp alone.
RECURSIVE audit_scan_mutant(_, _)
audit_scan_mutant(log_events, k) ==
    IF k = 0 THEN <<>>
    ELSE LET acc == audit_scan_mutant(log_events, k - 1)
             r == audit_event(log_events[k])
         IN  IF r.ok THEN Append(acc, r.val)
             ELSE Append(acc, [timestamp |-> log_events[k].timestamp, userId |-> None,
                               action |-> None, resourceType |-> None,
                               resourceId |-> None, outcome |-> None])

\* The loop of process_audit_logs: audit_events after the first k events
\* (the bare except drops an event whose try raised).
RECURSIVE audit_scan(_, _)
audit_scan(log_events, k) ==
    IF k = 0 THEN <<>>
    ELSE LET acc == audit_scan(log_events, k - 1)
             r == audit_event(log_events[k])
         IN  IF r.ok THEN Append(acc, r.val) ELSE acc

\* The if/elif chain with the security test first.
handler_dispatch_mutant(log_group) ==
    IF Contains(log_group, "security") THEN "security"
    ELSE IF Contains(log_group, "application") THEN "application"
    ELSE IF Contains(log_group, "audit") THEN "audit"
    ELSE "none"

\* The if/elif chain of handler on log_group.
handler_dispatch(log_group) ==
    IF Contains(log_group, "application") THEN "application"
    ELSE IF Contains(log_group, "security") THEN "security"
    ELSE IF Contains(log_group, "audit") THEN "audit"
    ELSE "none"

\* --------------------------------------------------------------- payloads
\* The transport payload is the document wrapped in its encodings, JSON in
\* gzip in base64; each decoder unwraps its own layer and raises on
\* anything else.
Garbage == [enc |-> "garbage", of |-> <<>>]
Wrap(enc, x) == [enc |-> enc, of |-> x]
Encode(doc) == Wrap("base64", Wrap("gzip", Wrap("json", doc)))

b64decode(x) == IF x.enc = "base64" THEN Ok(x.of) ELSE Err("Incorrect padding")
gzip_decompress(x) == IF x.enc = "gzip" THEN Ok(x.of) ELSE Err("Not a gzipped file")
json_loads(x) == IF x.enc = "json" THEN Ok(x.of) ELSE Err("Expecting value")

\* The decoding steps with log_data.get('logEvents', []) for the events.
handler_decode_mutant(ev) ==
    IF "awslogs" \notin DOMAIN ev THEN Err("'awslogs'")
    ELSE LET compressed_payload == b64decode(ev.awslogs.data)
         IN  IF ~compressed_payload.ok THEN compressed_payload
             ELSE LET uncompressed_payload == gzip_decompress(compressed_payload.val)
                  IN  IF ~uncompressed_payload.ok THEN uncompressed_payload
                      ELSE LET doc == json_loads(uncompressed_payload.val)
                           IN  IF ~doc.ok THEN doc
                               ELSE IF "logGroup" \notin DOMAIN doc.val THEN Err("'logGroup'")
                               ELSE IF "logStream" \notin DOMAIN doc.val THEN Err("'logStream'")
                               ELSE IF "logEvents" \notin DOMAIN doc.val
                                    THEN Ok([logGroup |-> doc.val.logGroup,
                                             logStream |-> doc.val.logStream,
                                             logEvents |-> <<>>])
                               ELSE doc

\* The decoding steps of handler: the decoded document with logGroup,
\* logStream and logEvents, or the error of the first step that raises.
handler_decode(ev) ==
    IF "awslogs" \notin DOMAIN ev THEN Err("'awslogs'")
    ELSE LET compressed_payload == b64decode(ev.awslogs.data)
         IN  IF ~compressed_payload.ok THEN compressed_payload
             ELSE LET uncompressed_payload == gzip_decompress(compressed_payload.val)
                  IN  IF ~uncompressed_payload.ok THEN uncompressed_payload
                      ELSE LET doc == json_loads(uncompressed_payload.val)
                           IN  IF ~doc.ok THEN doc
                               ELSE IF "logGroup" \notin DOMAIN doc.val THEN Err("'logGroup'")
                               ELSE IF "logStream" \notin DOMAIN doc.val THEN Err("'logStream'")
                               ELSE IF "logEvents" \notin DOMAIN doc.val THEN Err("'logEvents'")
                               ELSE doc

\* ----------------------------------------------------------------- inputs
LogGroups ==
    {"my-app-application-logs", "fhir-security", "fhir-audit",
     "security-application-audit", "audit-security", "Application-Audit"}

\* The logEvents of a batch with the given messages, in order; the k-th
\* record's timestamp is 10 * k.
LogEvents(msgs) ==
    [k \in 1..Len(msgs) |-> [timestamp |-> 10 * k, message |-> msgs[k]]]

EventLists(M) ==
    {LogEvents(msgs) : msgs \in UNION {[1..n -> M] : n \in 0..MaxRecords}}

Doc(g, s, evs) == [logGroup |-> g, logStream |-> s, logEvents |-> evs]
Event(data) == [awslogs |-> [data |-> data]]

\* Events whose payload decodes.
GoodEvents ==
    {Event(Encode(Doc(g, "s1", evs))) :
        g \in LogGroups,
        evs \in EventLists(AppMessages) \cup EventLists(SecMessages)
                  \cup EventLists(AuditMessages)}

\* Events that fail at one decoding step each.
BadEvents ==
    {[Records |-> <<>>],
     Event(Garbage),
     Event(Wrap("base64", Garbage)),
     Event(Wrap("base64", Wrap("gzip", Garbage))),
     Event(Encode([logStream |-> "s1", logEvents |-> <<>>])),
     Event(Encode([logGroup |-> "fhir-audit", logEvents |-> <<>>])),
     Event(Encode([logGroup |-> "fhir-audit", logStream |-> "s1"]))}

Events == GoodEvents \cup BadEvents

\* The events of the concurrent runs: two audit batches of one stream, and
\* a batch of each other category, one of them of the same stream.
ConcurrentEvents ==
    <<Event(Encode(Doc("fhir-audit", "s1", LogEvents(<<"{\"userId\":\"u1\"}">>)))),
      Event(Encode(Doc("fhir-audit", "s1", LogEvents(<<"{\"userId\":\"u2\"}", "{}">>)))),
      Event(Encode(Doc("my-app-application-logs", "s1",
                       LogEvents(<<"ERROR boom">>)))),
      Event(Encode(Doc("fhir-security", "s2",
                       LogEvents(<<"request BLOCKED">>))))>>

\* ------------------------------------------------------------------ state
VARIABLES
    day,        \* the UTC date datetime.utcnow() gives
    pc,         \* where each invocation of handler stands
    event,      \* each invocation's event argument
    log_data,   \* handler's log_data once decoded
    locals,     \* the extractor's local variables after its loop
    ran,        \* the extractors handler has called, in order
    calls,      \* the calls each invocation made to boto3 clients, in order
    response,   \* what handler returned
    metrics,    \* CloudWatch: the metric data put so far
    alerts,     \* SNS: the messages published so far
    s3,         \* the bucket: key -> object
    puts        \* for each key of the bucket, who put it, in order

vars == <<day, pc, event, log_data, locals, ran, calls, response, metrics, alerts, s3, puts>>

NoLocals ==
    [error_count |-> 0, performance_metrics |-> <<>>, failed_auth_count |-> 0,
     suspicious_activities |-> <<>>, audit_events |-> <<>>]
NoResponse == [statusCode |-> 0, body |-> ""]

\* A Python number: an int n is n/1.
Num(n) == [num |-> n, den |-> 1]

\* A call of a boto3 client: which, for what, on which day, and whether it
\* completed (ok) or raised.
Call(api, name, at, ok) == [api |-> api, name |-> name, at |-> at, ok |-> ok]

\* strftime('%Y/%m/%d') keys of the two kinds of object.
processed_key(d, log_stream) == [prefix |-> "processed", date |-> d, name |-> log_stream]
audit_summary_key(d) == [prefix |-> "audit-summary", date |-> d, name |-> "summary"]

\* The summary document store_audit_summary builds.
audit_summary(d, audit_events) ==
    [date |-> d, total_events |-> Len(audit_events), events |-> audit_events]

\* s3_client.put_object when it succeeds.
put_object(bucket, key, body) ==
    [k \in (DOMAIN bucket) \cup {key} |->
        IF k = key THEN [Body |-> body, ContentType |-> "application/json"]
        ELSE bucket[k]]

Recorded(i, key) ==
    [k \in (DOMAIN puts) \cup {key} |->
        IF k = key THEN (IF k \in DOMAIN puts THEN Append(puts[k], i) ELSE <<i>>)
        ELSE puts[k]]

InitCommon ==
    /\ day = 1
    /\ log_data = [i \in Inv |-> <<>>]
    /\ locals = [i \in Inv |-> NoLocals]
    /\ ran = [i \in Inv |-> <<>>]
    /\ calls = [i \in Inv |-> <<>>]
    /\ response = [i \in Inv |-> NoResponse]
    /\ metrics = {}
    /\ alerts = {}
    /\ s3 = <<>>
    /\ puts = <<>>

\* One invocation on any event.
Init ==
    /\ InitCommon
    /\ \E e \in Events : event = [i \in Inv |-> e]
    /\ pc = [i \in Inv |-> IF i = 1 THEN "start" ELSE "unused"]

\* Every invocation runs, each on one of the concurrent events.  The
\* invocations are interchangeable, so they are numbered in the order of
\* their events in ConcurrentEvents.
InitConcurrent ==
    /\ InitCommon
    /\ \E f \in [Inv -> DOMAIN ConcurrentEvents] :
          /\ \A i, j \in Inv : i < j => f[i] <= f[j]
          /\ event = [i \in Inv |-> ConcurrentEvents[f[i]]]
    /\ pc = [i \in Inv |-> "start"]

\* ---------------------------------------------------------------- handler
\* An except clause that answers 200 all the same.
handler_except_mutant(i, e) ==
    /\ response' = [response EXCEPT ![i] =
                        [statusCode |-> 200, body |-> "Error processing logs: " \o e]]
    /\ pc' = [pc EXCEPT ![i] = "done"]

\* The except clause of handler: the 500 response with the error's text.
handler_except(i, e) ==
    /\ response' = [response EXCEPT ![i] =
                        [statusCode |-> 500, body |-> "Error processing logs: " \o e]]
    /\ pc' = [pc EXCEPT ![i] = "done"]

Goto(i, label) ==
    /\ pc' = [pc EXCEPT ![i] = label]
    /\ UNCHANGED response

\* The clock passes midnight UTC.
Tick ==
    /\ day < MaxDay
    /\ day' = day + 1
    /\ UNCHANGED <<pc, event, log_data, locals, ran, calls, response, metrics, alerts, s3, puts>>

\* Dispatch with a final `else: return`: a batch of no known category is
\* not stored.
extractor_entry_mutant(category) ==
    CASE category = "application" -> "app_errors"
      [] category = "security" -> "sec_failed_auth"
      [] category = "audit" -> "audit_summary"
      [] OTHER -> "done"

\* The label an extractor's call leads to.
extractor_entry(category) ==
    CASE category = "application" -> "app_errors"
      [] category = "security" -> "sec_failed_auth"
      [] category = "audit" -> "audit_summary"
      [] OTHER -> "store"

\* The loop of the extractor handler calls for the category, on log_events.
extractor_locals(category, log_events) ==
    CASE category = "application" ->
            LET r == application_scan(log_events, Len(log_events))
            IN  [NoLocals EXCEPT !.error_count = r.error_count,
                                 !.performance_metrics = r.performance_metrics]
      [] category = "security" ->
            LET r == security_scan(log_events, Len(log_events))
            IN  [NoLocals EXCEPT !.failed_auth_count = r.failed_auth_count,
                                 !.suspicious_activities = r.suspicious_activities]
      [] category = "audit" ->
            [NoLocals EXCEPT !.audit_events = audit_scan(log_events, Len(log_events))]
      [] OTHER -> NoLocals

\* handler from its entry to the first call of an external service: the
\* decoding, the if/elif chain and the loop of the extractor it calls.
handler_start(i) ==
    /\ pc[i] = "start"
    /\ \E d \in {handler_decode(event[i])} :
          \/ /\ d.ok
             /\ \E category \in {handler_dispatch(d.val.logGroup)} :
                   /\ locals' = [locals EXCEPT ![i] =
                                    extractor_locals(category, d.val.logEvents)]
                   /\ ran' = [ran EXCEPT ![i] =
                                IF category = "none" THEN ran[i]
                                ELSE Append(ran[i], category)]
                   /\ Goto(i, extractor_entry(category))
             /\ log_data' = [log_data EXCEPT ![i] = d.val]
          \/ /\ ~d.ok
             /\ handler_except(i, d.err)
             /\ UNCHANGED <<log_data, locals, ran>>
    /\ UNCHANGED <<day, event, calls, metrics, alerts, s3, puts>>

\* ------------------------------------------------------------------ sinks
\* Every call to an external service either completes or raises; what it
\* raises reaches handler's except clause.
Logged(i, api, name, ok) ==
    calls' = [calls EXCEPT ![i] = Append(calls[i], Call(api, name, day, ok))]

\* send_custom_metric with its call in a try/except that passes: the
\* extractor goes on after a failed emission.
send_custom_metric_mutant(i, metric_name, value, namespace, next) ==
    \/ /\ metrics' = metrics \cup
                        {[Namespace |-> namespace, MetricName |-> metric_name,
                          Value |-> value, Unit |-> "Count", Timestamp |-> day, by |-> i]}
       /\ Logged(i, "put_metric_data", metric_name, TRUE)
       /\ Goto(i, next)
    \/ /\ Logged(i, "put_metric_data", metric_name, FALSE)
       /\ Goto(i, next)
       /\ UNCHANGED metrics

\* send_custom_metric: cloudwatch.put_metric_data.
send_custom_metric(i, metric_name, value, namespace, next) ==
    \/ /\ metrics' = metrics \cup
                        {[Namespace |-> namespace, MetricName |-> metric_name,
                          Value |-> value, Unit |-> "Count", Timestamp |-> day, by |-> i]}
       /\ Logged(i, "put_metric_data", metric_name, TRUE)
       /\ Goto(i, next)
    \/ /\ Logged(i, "put_metric_data", metric_name, FALSE)
       /\ handler_except(i, "put_metric_data failed")
       /\ UNCHANGED metrics

\* send_security_alert: sns.publish.
send_security_alert(i, activities, next) ==
    \/ /\ alerts' = alerts \cup
                       {[alert_type |-> "security", activities |-> activities,
                         timestamp |-> day, by |-> i]}
       /\ Logged(i, "publish", "security", TRUE)
       /\ Goto(i, next)
    \/ /\ Logged(i, "publish", "security", FALSE)
       /\ handler_except(i, "publish failed")
       /\ UNCHANGED alerts

\* store_audit_summary appending to the events of the day's summary when
\* there is one.
store_audit_summary_mutant(i, audit_events, next) ==
    \/ /\ LET key == audit_summary_key(day)
              merged == IF key \in DOMAIN s3 THEN s3[key].Body.events \o audit_events
                        ELSE audit_events
          IN  s3' = put_object(s3, key, audit_summary(day, merged))
       /\ puts' = Recorded(i, audit_summary_key(day))
       /\ Logged(i, "put_object", "audit-summary", TRUE)
       /\ Goto(i, next)
    \/ /\ Logged(i, "put_object", "audit-summary", FALSE)
       /\ handler_except(i, "put_object failed")
       /\ UNCHANGED <<s3, puts>>

\* store_audit_summary: s3_client.put_object of the summary.
store_audit_summary(i, audit_events, next) ==
    \/ /\ s3' = put_object(s3, audit_summary_key(day), audit_summary(day, audit_events))
       /\ puts' = Recorded(i, audit_summary_key(day))
       /\ Logged(i, "put_object", "audit-summary", TRUE)
       /\ Goto(i, next)
    \/ /\ Logged(i, "put_object", "audit-summary", FALSE)
       /\ handler_except(i, "put_object failed")
       /\ UNCHANGED <<s3, puts>>

\* process_application_logs after its loop: if error_count > 0.
process_application_logs_errors(i) ==
    /\ pc[i] = "app_errors"
    /\ \/ /\ locals[i].error_count > 0
          /\ send_custom_metric(i, "ApplicationErrors", Num(locals[i].error_count),
                                "FHIRBridge/Application", "app_average")
       \/ /\ ~(locals[i].error_count > 0)
          /\ Goto(i, "app_average")
          /\ UNCHANGED <<metrics, calls>>
    /\ UNCHANGED <<day, event, log_data, locals, ran, alerts, s3, puts>>

\* process_application_logs: if performance_metrics.
process_application_logs_average(i) ==
    /\ pc[i] = "app_average"
    /\ \/ /\ locals[i].performance_metrics # <<>>
          /\ send_custom_metric(i, "AverageResponseTime",
                                avg_duration(locals[i].performance_metrics),
                                "FHIRBridge/Performance", "store")
       \/ /\ locals[i].performance_metrics = <<>>
          /\ Goto(i, "store")
          /\ UNCHANGED <<metrics, calls>>
    /\ UNCHANGED <<day, event, log_data, locals, ran, alerts, s3, puts>>

\* process_security_logs after its loop: if failed_auth_count > 0.
process_security_logs_failed_auth(i) ==
    /\ pc[i] = "sec_failed_auth"
    /\ \/ /\ locals[i].failed_auth_count > 0
          /\ send_custom_metric(i, "FailedAuthentications", Num(locals[i].failed_auth_count),
                                "FHIRBridge/Security", "sec_alert")
       \/ /\ ~(locals[i].failed_auth_count > 0)
          /\ Goto(i, "sec_alert")
          /\ UNCHANGED <<metrics, calls>>
    /\ UNCHANGED <<day, event, log_data, locals, ran, alerts, s3, puts>>

\* process_security_logs: if suspicious_activities.
process_security_logs_alert(i) ==
    /\ pc[i] = "sec_alert"
    /\ \/ /\ locals[i].suspicious_activities # <<>>
          /\ send_security_alert(i, locals[i].suspicious_activities, "store")
       \/ /\ locals[i].suspicious_activities = <<>>
          /\ Goto(i, "store")
          /\ UNCHANGED <<alerts, calls>>
    /\ UNCHANGED <<day, event, log_data, locals, ran, metrics, s3, puts>>

\* process_audit_logs after its loop: if audit_events.
process_audit_logs_summary(i) ==
    /\ pc[i] = "audit_summary"
    /\ \/ /\ locals[i].audit_events # <<>>
          /\ store_audit_summary(i, locals[i].audit_events, "store")
       \/ /\ locals[i].audit_events = <<>>
          /\ Goto(i, "store")
          /\ UNCHANGED <<s3, puts, calls>>
    /\ UNCHANGED <<day, event, log_data, locals, ran, metrics, alerts>>

\* store_processed_logs(log_data) and handler's return of the 200 response.
store_processed_logs(i) ==
    /\ pc[i] = "store"
    /\ \/ /\ s3' = put_object(s3, processed_key(day, log_data[i].logStream), log_data[i])
          /\ puts' = Recorded(i, processed_key(day, log_data[i].logStream))
          /\ Logged(i, "put_object", "processed", TRUE)
          /\ response' = [response EXCEPT ![i] =
                            [statusCode |-> 200,
                             body |-> "Log processing completed successfully"]]
          /\ pc' = [pc EXCEPT ![i] = "done"]
       \/ /\ Logged(i, "put_object", "processed", FALSE)
          /\ handler_except(i, "put_object failed")
          /\ UNCHANGED <<s3, puts>>
    /\ UNCHANGED <<day, event, log_data, locals, ran, metrics, alerts>>

\* One step of invocation i.
Step(i) ==
    \/ handler_start(i)
    \/ process_application_logs_errors(i)
    \/ process_application_logs_average(i)
    \/ process_security_logs_failed_auth(i)
    \/ process_security_logs_alert(i)
    \/ process_audit_logs_summary(i)
    \/ store_processed_logs(i)

Next == Tick \/ \E i \in Inv : Step(i)

Spec == Init /\ [][Next]_vars

\* An invocation that can take a step takes it: handler runs to its return.
FairSpec == Spec /\ \A i \in Inv : WF_vars(Step(i))

ConcurrentSpec == InitConcurrent /\ [][Next]_vars

\* ======================================================== properties
\* What the properties read off the state.
Decoded(i) == DOMAIN log_data[i] # {}
Names(i) == {calls[i][k].name : k \in DOMAIN calls[i]}
Issued(i, name) == name \in Names(i)
Completed(i, name) == \E k \in DOMAIN calls[i] : calls[i][k].name = name /\ calls[i][k].ok
AllCompleted(i) == \A k \in DOMAIN calls[i] : calls[i][k].ok
ExtractorRaised(i) ==
    \E k \in DOMAIN calls[i] : calls[i][k].name # "processed" /\ ~calls[i][k].ok
MetricsBy(i) == {m \in metrics : m.by = i}
AlertsBy(i) == {a \in alerts : a.by = i}
PutBy(i, prefix) ==
    {k \in DOMAIN puts : k.prefix = prefix /\ \E n \in DOMAIN puts[k] : puts[k][n] = i}

\* The category of a log group as the specification words it: the first of
\* "application", "security", "audit" that the name contains.
CategoryOrder == <<"application", "security", "audit">>
FirstKeyword(g) ==
    LET hits == {n \in DOMAIN CategoryOrder : Contains(g, CategoryOrder[n])}
    IN  IF hits = {} THEN "none"
        ELSE CategoryOrder[CHOOSE n \in hits : \A m \in hits : n <= m]

\* The sink calls each extractor may make.
SinksOf(category) ==
    CASE category = "application" -> {"ApplicationErrors", "AverageResponseTime"}
      [] category = "security" -> {"FailedAuthentications", "security"}
      [] category = "audit" -> {"audit-summary"}
      [] OTHER -> {}

\* C1: a decoded batch runs at most one extractor, the one of the first of
\* "application", "security", "audit" its logGroup contains, and makes only
\* that extractor's sink calls; a logGroup with none of them runs no
\* extractor and the raw-batch persist is the invocation's only sink call.
C1_OneExtractor ==
    \A i \in Inv : Decoded(i) =>
        LET category == FirstKeyword(log_data[i].logGroup)
        IN  /\ ran[i] = IF category = "none" THEN <<>> ELSE <<category>>
            /\ Names(i) \subseteq SinksOf(category) \cup {"processed"}
            /\ category = "none" =>
                  /\ MetricsBy(i) = {} /\ AlertsBy(i) = {}
                  /\ PutBy(i, "audit-summary") = {}
                  /\ pc[i] = "done" => Len(calls[i]) = 1

C1_Witness ==
    \E i \in Inv :
        /\ pc[i] = "done"
        /\ Decoded(i)
        /\ log_data[i].logGroup = "security-application-audit"
        /\ ran[i] = <<"application">>
        /\ Completed(i, "ApplicationErrors")

\* C2 as claimed: every invocation whose payload decoded has issued the
\* raw-batch persist by the time handler returns.
C2_AlwaysPersists ==
    \A i \in Inv : (pc[i] = "done" /\ Decoded(i)) => Issued(i, "processed")

\* C2, amended: an invocation whose payload decoded eventually issues the
\* raw-batch persist, to the key of the day and its logStream with the
\* decoded batch as body, unless a sink call of its extractor raised; and
\* then it never issues it.
C2_PersistsUnlessExtractorRaised ==
    /\ <>[](\A i \in Inv :
                Decoded(i) => (Issued(i, "processed") \/ ExtractorRaised(i)))
    /\ [](\A i \in Inv :
            /\ ExtractorRaised(i) => ~Issued(i, "processed")
            /\ \A k \in DOMAIN calls[i] :
                  (calls[i][k].name = "processed" /\ calls[i][k].ok) =>
                      LET key == [prefix |-> "processed", date |-> calls[i][k].at,
                                  name |-> log_data[i].logStream]
                      IN  key \in DOMAIN s3 /\ s3[key].Body = log_data[i])

C2_Witness ==
    \E i \in Inv :
        /\ Completed(i, "audit-summary")
        /\ Completed(i, "processed")
        /\ log_data[i].logStream = "s1"

\* What handler returned, against what the invocation did.
C3_Returned(i) ==
    /\ response[i].statusCode \in {200, 500}
    /\ response[i].statusCode = 200 <=>
          (Decoded(i) /\ AllCompleted(i) /\ Completed(i, "processed"))
    /\ response[i].statusCode = 500 <=> (~Decoded(i) \/ ~AllCompleted(i))
    /\ response[i].statusCode = 500 =>
          /\ Len(response[i].body) > Len("Error processing logs: ")
          /\ Slice(response[i].body, 1, Len("Error processing logs: "))
                = "Error processing logs: "

\* C3: handler always returns, with statusCode 200 or 500: 200 exactly when
\* the decoding and every sink call it made completed, the raw-batch persist
\* among them; 500, with the error's text in body, exactly when a step
\* raised.
C3_Response ==
    /\ <>[](\A i \in Inv : pc[i] \in {"unused", "done"})
    /\ [](\A i \in Inv :
            /\ pc[i] = "done" => C3_Returned(i)
            /\ pc[i] # "done" => response[i] = NoResponse)

C3_Witness ==
    \E i \in Inv :
        /\ pc[i] = "done"
        /\ response[i].statusCode = 500
        /\ Decoded(i)
        /\ Len(calls[i]) = 3

\* The order of the sink calls of an invocation.
Rank(name) ==
    CASE name \in {"ApplicationErrors", "FailedAuthentications"} -> 1
      [] name \in {"AverageResponseTime", "security", "audit-summary"} -> 2
      [] OTHER -> 3

\* A completed sink call's effect is in the service's state.
InEffect(i, c) ==
    CASE c.api = "put_metric_data" -> \E m \in MetricsBy(i) : m.MetricName = c.name
      [] c.api = "publish" -> AlertsBy(i) # {}
      [] OTHER -> \E k \in PutBy(i, c.name) : k.date = c.at

\* C4: a sink call that raises is the invocation's last (no later sink call
\* is attempted, the calls keeping their order), handler returns 500 with
\* that error's text only, and the sink calls completed before it stay in
\* effect.
C4_SinkFailure ==
    \A i \in Inv : \A k \in DOMAIN calls[i] :
        /\ \A l \in DOMAIN calls[i] : k < l => Rank(calls[i][k].name) < Rank(calls[i][l].name)
        /\ calls[i][k].ok => InEffect(i, calls[i][k])
        /\ ~calls[i][k].ok =>
              /\ k = Len(calls[i])
              /\ pc[i] = "done"
              /\ response[i] = [statusCode |-> 500,
                                body |-> "Error processing logs: " \o calls[i][k].api
                                            \o " failed"]

C4_Witness ==
    \E i \in Inv :
        /\ Len(calls[i]) = 2
        /\ calls[i][1].ok /\ calls[i][1].name = "ApplicationErrors"
        /\ ~calls[i][2].ok /\ calls[i][2].name = "AverageResponseTime"
        /\ \E m \in MetricsBy(i) : m.MetricName = "ApplicationErrors"
        /\ response[i].statusCode = 500

\* C5: an invocation whose payload fails to decode, at whichever step,
\* returns 500 having run no extractor and made no sink call.
C5_DecodeFailure ==
    \A i \in Inv : (pc[i] = "done" /\ event[i] \in BadEvents) =>
        /\ response[i].statusCode = 500
        /\ calls[i] = <<>>
        /\ ran[i] = <<>>
        /\ MetricsBy(i) = {} /\ AlertsBy(i) = {}
        /\ DOMAIN s3 = {}

C5_Witness ==
    \E i \in Inv :
        /\ pc[i] = "done"
        /\ event[i] = Event(Wrap("base64", Wrap("gzip", Garbage)))
        /\ response[i].statusCode = 500

\* The days on which an invocation's audit summary was persisted.
SummaryDays(i) ==
    {calls[i][k].at : k \in {n \in DOMAIN calls[i] :
                                calls[i][n].name = "audit-summary" /\ calls[i][n].ok}}

\* Both wrote the day's key and the object is the last writer's summary.
LastWriteWins(i, j, d) ==
    LET key == [prefix |-> "audit-summary", date |-> d, name |-> "summary"]
    IN  /\ key \in DOMAIN s3
        /\ {i, j} \subseteq {puts[key][n] : n \in DOMAIN puts[key]}
        /\ LET last == puts[key][Len(puts[key])]
           IN  /\ s3[key].Body.events = locals[last].audit_events
               /\ s3[key].Body.total_events = Len(locals[last].audit_events)
               /\ s3[key].Body.date = d

\* C6 as claimed: two invocations that both persisted an audit summary on
\* the same UTC day wrote the same key, the stored object is the summary of
\* the last write alone, and both returned 200.
C6_OverwriteBoth200 ==
    \A i, j \in Inv : (i # j /\ pc[i] = "done" /\ pc[j] = "done") =>
        \A d \in SummaryDays(i) \cap SummaryDays(j) :
            /\ LastWriteWins(i, j, d)
            /\ response[i].statusCode = 200
            /\ response[j].statusCode = 200

\* C6, amended: two invocations that both persisted an audit summary on the
\* same UTC day wrote the same key, and the stored object is the summary
\* of the last write to that key alone (nothing of an earlier write is kept
\* or merged); each of them returns 200 if its own raw-batch persist then
\* completes, and 500 if that raises.
C6_Overwrite ==
    \A i, j \in Inv : (i # j /\ pc[i] = "done" /\ pc[j] = "done") =>
        \A d \in SummaryDays(i) \cap SummaryDays(j) :
            /\ LastWriteWins(i, j, d)
            /\ \A x \in {i, j} :
                  response[x].statusCode = IF Completed(x, "processed") THEN 200 ELSE 500

C6_Witness ==
    \E i, j \in Inv :
        /\ i # j /\ pc[i] = "done" /\ pc[j] = "done"
        /\ SummaryDays(i) \cap SummaryDays(j) # {}
        /\ locals[i].audit_events # locals[j].audit_events
        /\ response[i].statusCode = 200 /\ response[j].statusCode = 200
        /\ \E key \in DOMAIN puts : key.prefix = "audit-summary" /\ puts[key] = <<j, i>>

\* C7 as claimed: apart from the audit summaries, no object that one
\* invocation wrote to storage is overwritten by another invocation's
\* write.
C7_SoleHazard ==
    \A key \in DOMAIN puts :
        (\E m, n \in DOMAIN puts[key] : puts[key][m] # puts[key][n]) =>
            key.prefix = "audit-summary"

\* What the specification expects of each message, written down by hand.
ObjectMessages ==
    {"{}", "{\"userId\":\"u1\",\"action\":\"read\",\"outcome\":\"ok\"}",
     "{\"action\":\"read\",\"resourceType\":\"Patient\",\"resourceId\":\"p1\"}"}

ExpectedAuditEvent(ev) ==
    CASE ev.message = "{}" ->
            [timestamp |-> ev.timestamp, userId |-> None, action |-> None,
             resourceType |-> None, resourceId |-> None, outcome |-> None]
      [] ev.message = "{\"userId\":\"u1\",\"action\":\"read\",\"outcome\":\"ok\"}" ->
            [timestamp |-> ev.timestamp, userId |-> Some("u1"), action |-> Some("read"),
             resourceType |-> None, resourceId |-> None, outcome |-> Some("ok")]
      [] OTHER ->
            [timestamp |-> ev.timestamp, userId |-> None, action |-> Some("read"),
             resourceType |-> Some("Patient"), resourceId |-> Some("p1"), outcome |-> None]

ExpectedAuditEvents(log_events) ==
    LET parsed == SelectSeq(log_events, LAMBDA ev : ev.message \in ObjectMessages)
    IN  [k \in DOMAIN parsed |-> ExpectedAuditEvent(parsed[k])]

\* C8: of an audit batch, auditEvents is the in-order subsequence of the
\* records whose message is a JSON object, each with its own timestamp and
\* null for every absent field; the other records are dropped and raise
\* nothing; the summary is persisted exactly when the subsequence is not
\* empty, and holds it with total_events its length.
C8_AuditEvents ==
    \A i \in Inv : (Decoded(i) /\ FirstKeyword(log_data[i].logGroup) = "audit") =>
        LET expected == ExpectedAuditEvents(log_data[i].logEvents)
        IN  /\ locals[i].audit_events = expected
            /\ Issued(i, "audit-summary") => expected # <<>>
            /\ (expected # <<>> /\ pc[i] \in {"store", "done"}) => Issued(i, "audit-summary")
            /\ \A k \in DOMAIN calls[i] :
                  (calls[i][k].name = "audit-summary" /\ calls[i][k].ok) =>
                      LET key == [prefix |-> "audit-summary", date |-> calls[i][k].at,
                                  name |-> "summary"]
                      IN  /\ key \in DOMAIN s3
                          /\ s3[key].Body.total_events = Len(expected)
                          /\ s3[key].Body.events = expected
            /\ (pc[i] = "done" /\ AllCompleted(i)) => response[i].statusCode = 200

C8_Witness ==
    \E i \in Inv :
        /\ pc[i] = "done"
        /\ response[i].statusCode = 200
        /\ Len(log_data[i].logEvents) = 2
        /\ log_data[i].logEvents[1].message = "not json"
        /\ Len(locals[i].audit_events) = 1
        /\ locals[i].audit_events[1].timestamp = 20
        /\ locals[i].audit_events[1].outcome = None
        /\ Completed(i, "audit-summary")

ErrorMessages == {"ERROR boom", "ERROR Request completed 7 items in 42ms"}
CompletedMessages ==
    {"Request completed", "Request completed in 100ms",
     "ERROR Request completed 7 items in 42ms"}
ExpectedDuration(m) ==
    CASE m = "Request completed in 100ms" -> 100
      [] m = "ERROR Request completed 7 items in 42ms" -> 42
      [] OTHER -> 0
ExpectedDurationSum(log_events) ==
    LET total[k \in 0..Len(log_events)] ==
            IF k = 0 THEN 0
            ELSE total[k - 1] + (IF log_events[k].message \in CompletedMessages
                                 THEN ExpectedDuration(log_events[k].message) ELSE 0)
    IN  total[Len(log_events)]

Position(i, name) == CHOOSE k \in DOMAIN calls[i] : calls[i][k].name = name

\* C9: an application batch whose sink calls all complete emits
\* ApplicationErrors exactly when a message contains "ERROR", valued the
\* number of such records, and AverageResponseTime exactly when a message
\* contains "Request completed", valued the sum of the samples' durations
\* over their number (a sample without digits+"ms" counting 0); each at
\* most once, ApplicationErrors first, both before the raw-batch persist.
C9_ApplicationMetrics ==
    \A i \in Inv :
        (pc[i] = "done" /\ response[i].statusCode = 200
            /\ FirstKeyword(log_data[i].logGroup) = "application") =>
        LET evs == log_data[i].logEvents
            errors == {k \in DOMAIN evs : evs[k].message \in ErrorMessages}
            samples == {k \in DOMAIN evs : evs[k].message \in CompletedMessages}
            emitted(name) == {m \in MetricsBy(i) : m.MetricName = name}
        IN  /\ Cardinality(Names(i)) = Len(calls[i])
            /\ emitted("ApplicationErrors") # {} <=> errors # {}
            /\ Issued(i, "ApplicationErrors") <=> errors # {}
            /\ \A m \in emitted("ApplicationErrors") :
                  m.Value = Num(Cardinality(errors)) /\ m.Namespace = "FHIRBridge/Application"
            /\ emitted("AverageResponseTime") # {} <=> samples # {}
            /\ Issued(i, "AverageResponseTime") <=> samples # {}
            /\ \A m \in emitted("AverageResponseTime") :
                  /\ m.Value.den = Cardinality(samples)
                  /\ m.Value.num = ExpectedDurationSum(evs)
                  /\ m.Namespace = "FHIRBridge/Performance"
            /\ (errors # {} /\ samples # {}) =>
                  Position(i, "ApplicationErrors") < Position(i, "AverageResponseTime")
            /\ \A name \in Names(i) \ {"processed"} :
                  Position(i, name) < Position(i, "processed")

C9_Witness ==
    \E i \in Inv :
        /\ pc[i] = "done" /\ response[i].statusCode = 200
        /\ Len(log_data[i].logEvents) = 2
        /\ log_data[i].logEvents[1].message = "ERROR Request completed 7 items in 42ms"
        /\ log_data[i].logEvents[2].message = "Request completed"
        /\ \E m \in MetricsBy(i) :
              m.MetricName = "AverageResponseTime" /\ m.Value = [num |-> 42, den |-> 2]
        /\ \E m \in MetricsBy(i) : m.MetricName = "ApplicationErrors" /\ m.Value = Num(1)

AuthFailedMessages ==
    {"Authentication Failed: bad password", "unauthorized: authentication failed"}
SuspiciousMessages ==
    {"request BLOCKED", "unauthorized: authentication failed", "Forbidden"}

SecurityCounts(i) ==
    LET evs == log_data[i].logEvents
    IN  /\ locals[i].failed_auth_count =
              Cardinality({k \in DOMAIN evs : evs[k].message \in AuthFailedMessages})
        /\ locals[i].suspicious_activities =
              SelectSeq(evs, LAMBDA ev : ev.message \in SuspiciousMessages)
        /\ \A m \in MetricsBy(i) :
              /\ m.MetricName = "FailedAuthentications"
              /\ m.Value = Num(locals[i].failed_auth_count)
              /\ m.Namespace = "FHIRBridge/Security"
        /\ \A a \in AlertsBy(i) :
              a.activities = locals[i].suspicious_activities /\ a.alert_type = "security"

IsSecurity(i) == Decoded(i) /\ FirstKeyword(log_data[i].logGroup) = "security"

\* C10 as claimed: of a security batch, failedAuthCount and
\* suspiciousActivities are as the two case-insensitive checks give them,
\* the metric is emitted exactly when failedAuthCount > 0 and the alert is
\* published exactly when suspiciousActivities is not empty.
C10_AlertWheneverSuspicious ==
    \A i \in Inv : (IsSecurity(i) /\ pc[i] = "done") =>
        /\ SecurityCounts(i)
        /\ Issued(i, "FailedAuthentications") <=> locals[i].failed_auth_count > 0
        /\ Issued(i, "security") <=> locals[i].suspicious_activities # <<>>

\* C10, amended: of a security batch, failedAuthCount counts the records
\* whose message contains "authentication failed" in any case, once each,
\* suspiciousActivities lists in order the records whose message contains
\* "unauthorized", "forbidden" or "blocked" in any case, a record matching
\* both being in both; FailedAuthentications is emitted, valued
\* failedAuthCount, exactly when failedAuthCount > 0; the alert is published,
\* carrying the full list, exactly when suspiciousActivities is not empty
\* and the emission of FailedAuthentications did not raise.
C10_SecurityChecks ==
    \A i \in Inv : IsSecurity(i) =>
        /\ SecurityCounts(i)
        /\ pc[i] \in {"sec_alert", "store", "done"} =>
              (Issued(i, "FailedAuthentications") <=> locals[i].failed_auth_count > 0)
        /\ pc[i] \in {"store", "done"} =>
              (Issued(i, "security") <=>
                  (locals[i].suspicious_activities # <<>> /\
                   (Issued(i, "FailedAuthentications") =>
                        Completed(i, "FailedAuthentications"))))
        /\ Completed(i, "FailedAuthentications") => MetricsBy(i) # {}
        /\ Completed(i, "security") => AlertsBy(i) # {}

C10_Witness ==
    \E i \in Inv :
        /\ IsSecurity(i) /\ pc[i] = "done" /\ response[i].statusCode = 200
        /\ Len(log_data[i].logEvents) = 2
        /\ log_data[i].logEvents[1].message = "unauthorized: authentication failed"
        /\ log_data[i].logEvents[2].message = "Authentication Failed: bad password"
        /\ locals[i].failed_auth_count = 2
        /\ Len(locals[i].suspicious_activities) = 1
        /\ \E a \in AlertsBy(i) : Len(a.activities) = 1
        /\ \E m \in MetricsBy(i) : m.Value = Num(2)

====
